---- MODULE Spec2Model ----
(***************************************************************************)
(* A model of rasterio/transform.py: the transformer classes               *)
(* (TransformerBase, GDALTransformerBase, AffineTransformer,               *)
(* RPCTransformer, GCPTransformer), the factory get_transformer and the    *)
(* module-level conversions xy and rowcol.                                 *)
(*                                                                         *)
(* Numbers.  The code computes in IEEE binary floating point (numpy        *)
(* float64 arrays, Python floats).  A float is modelled as a pair <<m, e>> *)
(* standing for m * 2^e with m odd (or <<0, 0>>) and |m| < 2^MantBits;     *)
(* every arithmetic operation computes the exact result and rounds it to   *)
(* MantBits significant bits, ties to even, as the hardware does with 53   *)
(* bits.  Exponent range is not modelled (no overflow, no subnormals).     *)
(***************************************************************************)
EXTENDS Integers, Sequences, FiniteSets, TLC

VARIABLES
    transform,   \* the Affine matrix the conversions of Spec are called with
    call,        \* the last call made: its name and its arguments
    result,      \* what that call returned or raised
    opLog,       \* the positions `op` has been applied to during that call
    asked,       \* the arguments of get_transformer or of a constructor
    factory,     \* what get_transformer returned: a partial, or its error
    built,       \* how the construction went
    inst,        \* the transformer instance the caller holds
    env,         \* inst._env, the ExitStack: the contexts it holds, oldest first
    ctx,         \* every environment context: its state, how often it was released
    transform_arr, \* the shared AffineTransformer's _transform_arr
    pc,          \* each thread's position in AffineTransformer._transform
    job,         \* each thread's call: direction and point
    out          \* each thread's result

convVars == <<transform, call, result, opLog>>

lifeVars == <<asked, factory, built, inst, env, ctx>>

threadVars == <<transform_arr, pc, job, out>>

vars == <<transform, call, result, opLog, asked, factory, built, inst, env, ctx,
          transform_arr, pc, job, out>>

----------------------------------------------------------------------------
(* Bounds of the model *)

MantBits == 9      \* significand width of the modelled floats
MaxLen == 2        \* longest coordinate sequence passed to xy / rowcol
MaxEnter == 2      \* environment contexts entered in one behaviour

Coord == {0, 1, 2}         \* the integers coordinate inputs are drawn from
CoefA == {1, 2}            \* Affine coefficient a
CoefB == {0, 1}            \* Affine coefficient b
CoefC == {1}               \* Affine coefficient c
CoefD == {0, 1}            \* Affine coefficient d
CoefE == {-1, 1, 3}        \* Affine coefficient e
CoefF == {0}               \* Affine coefficient f

----------------------------------------------------------------------------
(* Floating point *)

Pow2(n) == 2 ^ n

Abs(n) == IF n < 0 THEN -n ELSE n

Sign(n) == IF n < 0 THEN -1 ELSE 1

RECURSIVE BitLen(_)
BitLen(n) == IF n <= 0 THEN 0 ELSE 1 + BitLen(n \div 2)

RECURSIVE Normalize(_, _)
Normalize(m, e) ==
    IF m = 0 THEN <<0, 0>>
    ELSE IF m % 2 = 0 THEN Normalize(m \div 2, e + 1)
    ELSE <<m, e>>

\* s * n * 2^e (n >= 0) with the k lowest bits of n rounded away, ties to even.
RoundBits(s, n, e, k) ==
    IF k <= 0 THEN Normalize(s * n, e)
    ELSE LET q    == n \div Pow2(k)
             r    == n % Pow2(k)
             half == Pow2(k - 1)
         IN Normalize(s * (IF r > half \/ (r = half /\ q % 2 = 1) THEN q + 1 ELSE q), e + k)

\* s * n * 2^e (n >= 0) rounded to MantBits significant bits, ties to even.
RoundToMant(s, n, e) == RoundBits(s, n, e, BitLen(n) - MantBits)

\* n * 2^e for an integer n of either sign, rounded
RoundInt(n, e) == RoundToMant(Sign(n), Abs(n), e)

FromInt(n) == RoundInt(n, 0)

FNeg(x) == <<-x[1], x[2]>>

FMul(x, y) == RoundToMant(Sign(x[1]) * Sign(y[1]), Abs(x[1]) * Abs(y[1]), x[2] + y[2])

FAdd(x, y) ==
    LET emin == IF x[2] < y[2] THEN x[2] ELSE y[2]
    IN RoundInt(x[1] * Pow2(x[2] - emin) + y[1] * Pow2(y[2] - emin), emin)

FSub(x, y) == FAdd(x, FNeg(y))

\* 1.0 / y for y # 0 (Quotient is s * 2^-e / n): the quotient is taken to MantBits + 2 bits or more and a
\* sticky bit records an inexact division, so that the rounding is correct.
Quotient(s, n, K, e) ==
    RoundToMant(s, 2 * (Pow2(K) \div n) + (IF Pow2(K) % n = 0 THEN 0 ELSE 1), -(K + 1) - e)

FRecip(y) == Quotient(Sign(y[1]), Abs(y[1]), MantBits + BitLen(Abs(y[1])) + 1, y[2])

FZero == <<0, 0>>
FOne == <<1, 0>>
FHalf == <<1, -1>>

\* math.floor, math.ceil and round (ties to even) of a float, as integers.
Floor(x) ==
    IF x[2] >= 0 THEN x[1] * Pow2(x[2])
    ELSE LET p == Pow2(-x[2])
             q == Abs(x[1]) \div p
             r == Abs(x[1]) % p
         IN IF x[1] >= 0 THEN q ELSE (IF r = 0 THEN -q ELSE -q - 1)

Ceil(x) == -Floor(FNeg(x))

Round(x) ==
    IF x[2] >= 0 THEN x[1] * Pow2(x[2])
    ELSE LET p    == Pow2(-x[2])
             q    == Abs(x[1]) \div p
             r    == Abs(x[1]) % p
             half == p \div 2
             up   == r > half \/ (r = half /\ q % 2 = 1)
         IN Sign(x[1]) * (IF up THEN q + 1 ELSE q)

----------------------------------------------------------------------------
(* Coordinate inputs.  A caller passes a Python scalar, a (possibly nested) *)
(* list, or None; `shape` is the numpy shape of the value and `v` its data  *)
(* in row-major order, as the floats numpy stores.                          *)

Scalar(x) == [k |-> "scalar", shape |-> <<>>, v |-> <<x>>]

List(s) == [k |-> "list", shape |-> <<Len(s)>>, v |-> s]

Nested == [k |-> "list", shape |-> <<1, 1>>, v |-> <<FromInt(0)>>]

None == [k |-> "none", shape |-> <<>>, v |-> <<>>]

Run(first, n) == [i \in 1..n |-> FromInt(first + i - 1)]

Inputs ==
    {Scalar(FromInt(n)) : n \in Coord}
        \cup {List(Run(first, n)) : first \in Coord, n \in 0..MaxLen}
        \cup {Nested}

ZInputs == {None, Scalar(FromInt(0))} \cup {List([i \in 1..n |-> FromInt(0)]) : n \in 1..MaxLen}

Offsets == {"center", "ul", "ur", "ll", "lr", "bogus"}

Ops == {"floor", "ceil", "round", "np.floor"}

\* hasattr(x, "__iter__")
HasIter(x) == x.k = "list"

----------------------------------------------------------------------------
(* The affine package's Affine: the tuple (a, b, c, d, e, f) of floats *)

Affine(a, b, c, d, e, f) ==
    <<FromInt(a), FromInt(b), FromInt(c), FromInt(d), FromInt(e), FromInt(f)>>

IDENTITY == <<FOne, FZero, FZero, FZero, FOne, FZero>>

\* Affine.translation(xoff, yoff), offsets given as floats
Translation(xoff, yoff) == <<FOne, FZero, xoff, FZero, FOne, yoff>>

Determinant(T) == FSub(FMul(T[1], T[5]), FMul(T[2], T[4]))

IsDegenerate(T) == Determinant(T) = FZero

\* The inverse from its linear part ra, rb, rd, re: the translation
InverseOf(T, ra, rb, rd, re) ==
    <<ra, rb, FSub(FMul(FNeg(T[3]), ra), FMul(T[6], rb)),
      rd, re, FSub(FMul(FNeg(T[3]), rd), FMul(T[6], re))>>

\* The inverse from idet = 1.0 / determinant
InverseBy(T, idet) ==
    InverseOf(T, FMul(T[5], idet), FMul(FNeg(T[2]), idet),
                 FMul(FNeg(T[4]), idet), FMul(T[1], idet))

\* A slip in the inverse: the translation of the inverse is left out.
Invert_NoTranslation(T) ==
    [InverseBy(T, FRecip(Determinant(T))) EXCEPT ![3] = FZero, ![6] = FZero]

\* Affine.__invert__, for a transform that is not degenerate
Invert(T) == InverseBy(T, FRecip(Determinant(T)))

----------------------------------------------------------------------------
(* TransformerBase._ensure_arr_input *)

RECURSIVE Broadcast(_, _)
Broadcast(s, t) ==
    IF s = <<>> THEN [ok |-> TRUE, shape |-> t]
    ELSE IF t = <<>> THEN [ok |-> TRUE, shape |-> s]
    ELSE LET ds   == s[Len(s)]
             dt   == t[Len(t)]
             rest == Broadcast(SubSeq(s, 1, Len(s) - 1), SubSeq(t, 1, Len(t) - 1))
         IN IF ~rest.ok \/ (ds # dt /\ ds # 1 /\ dt # 1)
            THEN [ok |-> FALSE, shape |-> <<>>]
            ELSE [ok |-> TRUE, shape |-> Append(rest.shape, IF ds = 1 THEN dt ELSE ds)]

\* np.atleast_1d
AtLeast1d(shape) == IF shape = <<>> THEN <<1>> ELSE shape

\* pts[i] = x : the assignment of x, broadcast, to a row of length n
Fill(x, n) == [i \in 1..n |-> x.v[IF Len(x.v) = 1 THEN 1 ELSE i]]

\* np.broadcast(xs, ys, zs) after np.broadcast(xs, ys) = bxy; zs may be None
BroadcastZs(bxy, zs) ==
    IF zs.k = "none" \/ ~bxy.ok THEN bxy ELSE Broadcast(bxy.shape, zs.shape)

\* The rest of _ensure_arr_input, b being the broadcast of the inputs
Points(xs, ys, zs, b) ==
    IF ~b.ok THEN [err |-> "TransformError", xs |-> <<>>, ys |-> <<>>, zs |-> <<>>]
    ELSE IF Len(b.shape) # 1
         THEN [err |-> "TransformError", xs |-> <<>>, ys |-> <<>>, zs |-> <<>>]
    ELSE [err |-> "none",
          xs  |-> Fill(xs, b.shape[1]),
          ys  |-> Fill(ys, b.shape[1]),
          zs  |-> IF zs.k = "none" THEN [i \in 1..b.shape[1] |-> FZero]
                  ELSE Fill(zs, b.shape[1])]

ensure_arr_input(xs, ys, zs) ==
    Points(xs, ys, zs, BroadcastZs(Broadcast(AtLeast1d(xs.shape), ys.shape), zs))

----------------------------------------------------------------------------
(* Transformers.  A transformer is a record: [cls |-> "Affine", T |-> matrix] *)
(* for an AffineTransformer, [cls |-> "GCP" or "RPC", closed |-> flag, ...]   *)
(* for the GDAL based ones.                                                   *)

Raised(e) == [err |-> e, a |-> <<>>, b |-> <<>>]

\* Row r of np.matmul(arr, input_matrix), for input rows xs, ys and ones
MatMulRow(arr, r, xs, ys) ==
    [i \in 1..Len(xs) |->
        FAdd(FAdd(FMul(arr[3 * r + 1], xs[i]), FMul(arr[3 * r + 2], ys[i])),
             FMul(arr[3 * r + 3], FOne))]

\* np.matmul(arr, input_matrix): rows 0 and 1 of the product, for input rows
\* xs, ys and a row of ones
MatMul(arr, xs, ys) ==
    [err |-> "none", a |-> MatMulRow(arr, 0, xs, ys), b |-> MatMulRow(arr, 1, xs, ys)]

\* The matrix AffineTransformer._transform selects for a direction; ~T raises
\* affine.TransformNotInvertibleError (an Exception, not a TypeError) when T is
\* degenerate.
SelectMatrix(T, direction) ==
    IF direction = "forward" THEN [err |-> "none", M |-> T]
    ELSE IF IsDegenerate(T) THEN [err |-> "TransformNotInvertibleError", M |-> T]
    ELSE [err |-> "none", M |-> Invert(T)]

\* The product with the matrix selected, or the error of the selection
Product(sel, xs, ys) ==
    IF sel.err # "none" THEN Raised(sel.err) ELSE MatMul(sel.M, xs, ys)

AffineTransformer_transform(T, xs, ys, direction) ==
    Product(SelectMatrix(T, direction), xs, ys)

\* The fit the external engine evaluates for a GCP or RPC transformer: it is
\* outside this module and stands here as one fixed invertible map.
EngineModel == Affine(2, 0, 0, 0, -2, 8)

\* GCPTransformerBase._transform / RPCTransformerBase._transform: a closed
\* transformer refuses; otherwise the engine answers, or rejects its input
\* with a TypeError (eng = "TypeError").
GDAL_transform(tr, xs, ys, zs, direction, eng) ==
    IF tr.closed THEN Raised("ClosedTransformerError")
    ELSE IF eng = "TypeError" THEN Raised("TypeError")
    ELSE AffineTransformer_transform(EngineModel, xs, ys, direction)

transform_(tr, xs, ys, zs, direction, eng) ==
    IF tr.cls = "Affine" THEN AffineTransformer_transform(tr.T, xs, ys, direction)
    ELSE GDAL_transform(tr, xs, ys, zs, direction, eng)

\* A slip in the offset table: the pairs of 'ur' and 'll' are exchanged.
OffsetPair_CornersSwapped(offset) ==
    CASE offset = "center" -> [ok |-> TRUE, coff |-> FHalf, roff |-> FHalf]
      [] offset = "ul"     -> [ok |-> TRUE, coff |-> FZero, roff |-> FZero]
      [] offset = "ur"     -> [ok |-> TRUE, coff |-> FZero, roff |-> FOne]
      [] offset = "ll"     -> [ok |-> TRUE, coff |-> FOne, roff |-> FZero]
      [] offset = "lr"     -> [ok |-> TRUE, coff |-> FOne, roff |-> FOne]
      [] OTHER             -> [ok |-> FALSE, coff |-> FZero, roff |-> FZero]

\* The (coff, roff) of an offset name; ok is FALSE for a name that is none of
\* the five.
OffsetPair(offset) ==
    CASE offset = "center" -> [ok |-> TRUE, coff |-> FHalf, roff |-> FHalf]
      [] offset = "ul"     -> [ok |-> TRUE, coff |-> FZero, roff |-> FZero]
      [] offset = "ur"     -> [ok |-> TRUE, coff |-> FOne, roff |-> FZero]
      [] offset = "ll"     -> [ok |-> TRUE, coff |-> FZero, roff |-> FOne]
      [] offset = "lr"     -> [ok |-> TRUE, coff |-> FOne, roff |-> FOne]
      [] OTHER             -> [ok |-> FALSE, coff |-> FZero, roff |-> FZero]

\* What a conversion returns or raises.  kind is "pair" for a pair of scalars,
\* "lists" for two lists, "error" for an exception; a and b hold the values,
\* integers too as floats (a pair holds one value in each).
Error(e) == [kind |-> "error", err |-> e, a |-> <<>>, b |-> <<>>]

\* A slip in the handler: except Exception instead of except TypeError.
Reraise_Every(e) == "TransformError"

\* except TypeError: raise TransformError("Invalid inputs")
Reraise(e) == IF e = "TypeError" THEN "TransformError" ELSE e

\* The end of TransformerBase.xy: new is what self._transform gave
XyResult(AS_ARR, new) ==
    IF new.err # "none" THEN Error(Reraise(new.err))
    ELSE IF Len(new.a) = 1 /\ ~AS_ARR
         THEN [kind |-> "pair", err |-> "none", a |-> <<new.a[1]>>, b |-> <<new.b[1]>>]
    ELSE [kind |-> "lists", err |-> "none", a |-> new.a, b |-> new.b]

\* self._transform(offset_cols, offset_rows, zs, forward) and the result
XyTransform(tr, AS_ARR, shifted, zs, eng) ==
    XyResult(AS_ARR, transform_(tr, shifted.a, shifted.b, zs, "forward", eng))

\* TransformerBase.xy from the offset on: pts are the inputs as arrays, off
\* the offset pair
XyShift(tr, AS_ARR, pts, off, eng) ==
    IF pts.err # "none" THEN Error(pts.err)
    ELSE IF ~off.ok THEN Error("TransformError")
    ELSE XyTransform(tr, AS_ARR,
             AffineTransformer_transform(Translation(off.coff, off.roff),
                                         pts.ys, pts.xs, "forward"),
             pts.zs, eng)

\* TransformerBase.xy
TransformerBase_xy(tr, rows, cols, zs, offset, eng) ==
    XyShift(tr, HasIter(rows), ensure_arr_input(rows, cols, zs), OffsetPair(offset), eng)

\* op(x) for the pluggable rounding function: math.floor, math.ceil and round
\* return an int, np.floor a float of the same value
ApplyOp(op, x) ==
    FromInt(CASE op = "floor"    -> Floor(x)
              [] op = "ceil"     -> Ceil(x)
              [] op = "round"    -> Round(x)
              [] op = "np.floor" -> Floor(x))

\* isinstance(op, np.ufunc)
IsUfunc(op) == op = "np.floor"

\* map(op, values), or op(values, out=values) for a ufunc
MapOp(op, values) == [i \in 1..Len(values) |-> ApplyOp(op, values[i])]

\* The applications of op to the values of one axis: <<axis, index, argument>>
Applied(axis, values) == [i \in 1..Len(values) |-> <<axis, i, values[i]>>]

Lists(a, b) == [kind |-> "lists", err |-> "none", a |-> a, b |-> b]

Pair(a, b) == [kind |-> "pair", err |-> "none", a |-> <<a>>, b |-> <<b>>]

\* A slip in the result shaping of rowcol: the scalar branch returns the col
\* before the row.
RowcolResult_ColFirst(AS_ARR, op, new_rows, new_cols) ==
    IF AS_ARR
    THEN [res |-> Lists(MapOp(op, new_rows), MapOp(op, new_cols)),
          log |-> Applied("row", new_rows) \o Applied("col", new_cols)]
    ELSE [res |-> Pair(ApplyOp(op, new_cols[1]), ApplyOp(op, new_rows[1])),
          log |-> << <<"row", 1, new_rows[1]>>, <<"col", 1, new_cols[1]>> >>]

\* The end of TransformerBase.rowcol: op applied to the positions, and the
\* result shaped.  log lists the applications of op in the order the code
\* makes them: a ufunc is applied to the cols first, map(op, ...) is consumed
\* rows first.
RowcolResult(AS_ARR, op, new_rows, new_cols) ==
    IF AS_ARR
    THEN IF IsUfunc(op)
         THEN [res |-> Lists(MapOp(op, new_rows), MapOp(op, new_cols)),
               log |-> Applied("col", new_cols) \o Applied("row", new_rows)]
         ELSE [res |-> Lists(MapOp(op, new_rows), MapOp(op, new_cols)),
               log |-> Applied("row", new_rows) \o Applied("col", new_cols)]
    ELSE [res |-> Pair(ApplyOp(op, new_rows[1]), ApplyOp(op, new_cols[1])),
          log |-> << <<"row", 1, new_rows[1]>>, <<"col", 1, new_cols[1]>> >>]

\* TransformerBase.rowcol after self._transform, new being what it gave
RowcolShape(AS_ARR, op, new) ==
    IF new.err # "none" THEN [res |-> Error(Reraise(new.err)), log |-> <<>>]
    ELSE RowcolResult(AS_ARR, op, new.b, new.a)

\* TransformerBase.rowcol after _ensure_arr_input, pts being the inputs as arrays
RowcolTransform(tr, AS_ARR, pts, op, eng) ==
    IF pts.err # "none" THEN [res |-> Error(pts.err), log |-> <<>>]
    ELSE RowcolShape(AS_ARR, op, transform_(tr, pts.xs, pts.ys, pts.zs, "reverse", eng))

\* TransformerBase.rowcol: the result and the log of the applications of op
TransformerBase_rowcol(tr, xs, ys, zs, op, eng) ==
    RowcolTransform(tr, HasIter(xs) \/ HasIter(ys) \/ HasIter(zs),
                    ensure_arr_input(xs, ys, zs), op, eng)

----------------------------------------------------------------------------
(* Transform values, the factory and the constructors.  A transform value   *)
(* is [type, items, T]: its Python type, the element types when it is a     *)
(* list, and the matrix when it is an Affine.                               *)

Value(type, items, T) == [type |-> type, items |-> items, T |-> T]

NoneValue == Value("NoneType", <<>>, IDENTITY)

AffineValue(T) == Value("Affine", <<>>, T)

RPCValue == Value("RPC", <<>>, IDENTITY)

DictValue == Value("dict", <<>>, IDENTITY)

IntValue == Value("int", <<>>, IDENTITY)

ListValue(items) == Value("list", items, IDENTITY)

NoOptions == "{}"

\* A slip in the dispatch: a dict of RPCs is taken for an RPC, as the
\* RPCTransformer constructor takes it.
get_transformer_DictAsRPC(t, rpc_options) ==
    IF t.type = "NoneType"
    THEN [err |-> "ValueError", cls |-> "none", arg |-> t, opts |-> NoOptions]
    ELSE IF t.type = "Affine"
    THEN [err |-> "none", cls |-> "AffineTransformer", arg |-> t, opts |-> NoOptions]
    ELSE IF t.type \in {"RPC", "dict"}
    THEN [err |-> "none", cls |-> "RPCTransformer", arg |-> t, opts |-> rpc_options]
    ELSE [err |-> "none", cls |-> "GCPTransformer", arg |-> t, opts |-> NoOptions]

\* get_transformer: the partial it returns, or the error it raises
get_transformer(t, rpc_options) ==
    IF t.type = "NoneType"
    THEN [err |-> "ValueError", cls |-> "none", arg |-> t, opts |-> NoOptions]
    ELSE IF t.type = "Affine"
    THEN [err |-> "none", cls |-> "AffineTransformer", arg |-> t, opts |-> NoOptions]
    ELSE IF t.type = "RPC"
    THEN [err |-> "none", cls |-> "RPCTransformer", arg |-> t, opts |-> rpc_options]
    ELSE [err |-> "none", cls |-> "GCPTransformer", arg |-> t, opts |-> NoOptions]

NoTransformer == [cls |-> "none", T |-> IDENTITY, closed |-> TRUE, opts |-> NoOptions]

\* What a constructor does: the error it raises and the frame that raises it,
\* whether control reached the base class __init__ (which creates the GDAL
\* transformer), and the instance built.
Built(tr, base) == [err |-> "none", by |-> "none", base |-> base, tr |-> tr]

Failed(e, by, base) == [err |-> e, by |-> by, base |-> base, tr |-> NoTransformer]

\* AffineTransformer.__init__
AffineTransformer_init(t) ==
    IF t.type # "Affine" THEN Failed("ValueError", "AffineTransformer.__init__", FALSE)
    ELSE Built([cls |-> "Affine", T |-> t.T, closed |-> FALSE, opts |-> NoOptions], FALSE)

\* RPCTransformerBase.__init__: creates the GDAL transformer from the RPCs
RPCTransformerBase_init(t, rpc_options) ==
    Built([cls |-> "RPC", T |-> IDENTITY, closed |-> FALSE, opts |-> rpc_options], TRUE)

\* GCPTransformerBase.__init__: refuses an empty sequence, before it creates
\* the GDAL transformer
GCPTransformerBase_init(t) ==
    IF Len(t.items) = 0 THEN Failed("ValueError", "GCPTransformerBase.__init__", TRUE)
    ELSE Built([cls |-> "GCP", T |-> IDENTITY, closed |-> FALSE, opts |-> NoOptions], TRUE)

\* RPCTransformer.__init__
RPCTransformer_init(t, rpc_options) ==
    IF t.type \notin {"RPC", "dict"}
    THEN Failed("ValueError", "RPCTransformer.__init__", FALSE)
    ELSE RPCTransformerBase_init(t, rpc_options)

\* len(x) is defined
HasLen(t) == t.type \in {"list", "dict", "Affine"}

\* len(gcps)
PyLen(t) == IF t.type = "Affine" THEN 9 ELSE Len(t.items)

\* GCPTransformer.__init__
GCPTransformer_init(t) ==
    IF ~HasLen(t) THEN Failed("TypeError", "GCPTransformer.__init__", FALSE)
    ELSE IF PyLen(t) # 0 /\ (t.type = "Affine" \/ t.items[1] # "GroundControlPoint")
    THEN Failed("ValueError", "GCPTransformer.__init__", FALSE)
    ELSE GCPTransformerBase_init(t)

\* transformer_cls(): the call of the partial get_transformer returned
Construct(partial) ==
    CASE partial.cls = "AffineTransformer" -> AffineTransformer_init(partial.arg)
      [] partial.cls = "RPCTransformer"    -> RPCTransformer_init(partial.arg, partial.opts)
      [] partial.cls = "GCPTransformer"    -> GCPTransformer_init(partial.arg)

----------------------------------------------------------------------------
(* The scope of a transformer: __enter__, __exit__, close.  A scope state is *)
(* [inst, env, ctx]: the instance, its ExitStack and the contexts.           *)

Unused == [state |-> "unused", releases |-> 0]

NoContexts == [c \in 1..MaxEnter |-> Unused]

HasFresh(cx) == \E c \in DOMAIN cx : cx[c].state = "unused"

\* env_ctx_if_needed(): the next context, not entered yet
FreshContext(cx) ==
    CHOOSE c \in DOMAIN cx :
        cx[c].state = "unused" /\ \A d \in DOMAIN cx : d < c => cx[d].state # "unused"

\* ExitStack.enter_context(cm): cm is entered and pushed
enter_context(e, cx) ==
    LET c == FreshContext(cx)
    IN [env |-> Append(e, c), ctx |-> [cx EXCEPT ![c].state = "held"]]

\* ExitStack.close(): every context on the stack is popped and exited
ExitStack_close(e, cx) ==
    [env |-> <<>>,
     ctx |-> [c \in DOMAIN cx |->
                IF \E i \in 1..Len(e) : e[i] = c
                THEN [state    |-> "released",
                      releases |-> cx[c].releases
                                     + Cardinality({i \in 1..Len(e) : e[i] = c})]
                ELSE cx[c]]]

\* GCPTransformerBase.close / RPCTransformerBase.close: destroys the GDAL
\* transformer if there is one and marks the instance closed; it never raises
close(tr) == [tr EXCEPT !.closed = TRUE]

\* GDALTransformerBase.__enter__
GDALTransformerBase_enter(st) ==
    LET stack == enter_context(st.env, st.ctx)
    IN [inst |-> st.inst, env |-> stack.env, ctx |-> stack.ctx]

\* A slip in __exit__: close() is called, self._env.close() is not.
GDALTransformerBase_exit_KeepsEnv(st) ==
    [inst |-> close(st.inst), env |-> st.env, ctx |-> st.ctx]

\* GDALTransformerBase.__exit__
GDALTransformerBase_exit(st) ==
    [inst |-> close(st.inst),
     env  |-> ExitStack_close(st.env, st.ctx).env,
     ctx  |-> ExitStack_close(st.env, st.ctx).ctx]

\* transformer.__enter__(): TransformerBase.__enter__ does nothing
enter(st) == IF st.inst.cls = "Affine" THEN st ELSE GDALTransformerBase_enter(st)

\* transformer.__exit__(*args): TransformerBase.__exit__ does nothing
exit(st) == IF st.inst.cls = "Affine" THEN st ELSE GDALTransformerBase_exit(st)

\* Whether __enter__ can be modelled: a context is left to enter
CanEnter(tr, cx) == tr.cls = "Affine" \/ HasFresh(cx)

----------------------------------------------------------------------------
(* The module-level conversions: get_transformer, the construction, and the *)
(* method called inside the scope `with transformer_cls() as transformer`.  *)
(* Each gives the result, the log of the applications of op and the         *)
(* contexts as the call leaves them.                                        *)

Outcome(res, log, cx) == [res |-> res, log |-> log, ctx |-> cx]

\* A scope state of a transformer just built
Scope(tr, cx) == [inst |-> tr, env |-> <<>>, ctx |-> cx]

\* with transformer_cls() as transformer: return transformer.xy(...)
WithXy(c, rows, cols, zs, offset, eng, cx) ==
    IF c.err # "none" THEN Outcome(Error(c.err), <<>>, cx)
    ELSE Outcome(TransformerBase_xy(enter(Scope(c.tr, cx)).inst, rows, cols, zs, offset, eng),
                 <<>>, exit(enter(Scope(c.tr, cx))).ctx)

\* The call of the partial and the scope, in xy
ConstructXy(partial, rows, cols, zs, offset, eng, cx) ==
    IF partial.err # "none" THEN Outcome(Error(partial.err), <<>>, cx)
    ELSE WithXy(Construct(partial), rows, cols, zs, offset, eng, cx)

\* xy(transform, rows, cols, zs, offset, **rpc_options)
xy(t, rows, cols, zs, offset, rpc_options, eng, cx) ==
    ConstructXy(get_transformer(t, rpc_options), rows, cols, zs, offset, eng, cx)

\* The scope left: the result of the method and the contexts after __exit__
Leave(r, cx) == Outcome(r.res, r.log, cx)

\* with transformer_cls() as transformer: return transformer.rowcol(...)
WithRowcol(c, xs, ys, zs, op, eng, cx) ==
    IF c.err # "none" THEN Outcome(Error(c.err), <<>>, cx)
    ELSE Leave(TransformerBase_rowcol(enter(Scope(c.tr, cx)).inst, xs, ys, zs, op, eng),
               exit(enter(Scope(c.tr, cx))).ctx)

\* The call of the partial and the scope, in rowcol
ConstructRowcol(partial, xs, ys, zs, op, eng, cx) ==
    IF partial.err # "none" THEN Outcome(Error(partial.err), <<>>, cx)
    ELSE WithRowcol(Construct(partial), xs, ys, zs, op, eng, cx)

\* rowcol(transform, xs, ys, zs, op, **rpc_options)
rowcol(t, xs, ys, zs, op, rpc_options, eng, cx) ==
    ConstructRowcol(get_transformer(t, rpc_options), xs, ys, zs, op, eng, cx)

\* rowcol(transform, *there), there being what xy returned
Back(t, there) ==
    IF there.res.kind = "error" THEN there
    ELSE IF there.res.kind = "pair"
    THEN rowcol(t, Scalar(there.res.a[1]), Scalar(there.res.b[1]), None, "floor",
                NoOptions, "ok", there.ctx)
    ELSE rowcol(t, List(there.res.a), List(there.res.b), None, "floor",
                NoOptions, "ok", there.ctx)

\* rowcol(transform, *xy(transform, rows, cols, offset='ul')), op = math.floor
RoundTrip(t, rows, cols, cx) ==
    Back(t, xy(t, rows, cols, None, "ul", NoOptions, "ok", cx))

----------------------------------------------------------------------------
(* States *)

Transforms ==
    {Affine(a, b, c, d, e, f) :
        a \in CoefA, b \in CoefB, c \in CoefC, d \in CoefD, e \in CoefE, f \in CoefF}

Call(fn, x, y, zs, opt, eng) ==
    [fn |-> fn, x |-> x, y |-> y, zs |-> zs, opt |-> opt, eng |-> eng]

NoCall == Call("none", None, None, None, "none", "ok")

NoResult == [kind |-> "none", err |-> "none", a |-> <<>>, b |-> <<>>]

Returned == [kind |-> "returned", err |-> "none", a |-> <<>>, b |-> <<>>]

NotAsked == [fn |-> "none", t |-> NoneValue, opts |-> NoOptions]

NoFactory == [err |-> "none", cls |-> "none", arg |-> NoneValue, opts |-> NoOptions]

NotBuilt == [err |-> "none", by |-> "none", base |-> FALSE, tr |-> NoTransformer]

Threads == {1, 2}

NoJob == [direction |-> "forward", x |-> FZero, y |-> FZero]

ConvStart ==
    /\ call = NoCall
    /\ result = NoResult
    /\ opLog = <<>>

LifeStart ==
    /\ asked = NotAsked
    /\ factory = NoFactory
    /\ built = NotBuilt
    /\ inst = NoTransformer
    /\ env = <<>>
    /\ ctx = NoContexts

ThreadStart ==
    /\ transform_arr = IDENTITY
    /\ pc = [t \in Threads |-> "idle"]
    /\ job = [t \in Threads |-> NoJob]
    /\ out = [t \in Threads |-> <<FZero, FZero>>]

----------------------------------------------------------------------------
(* The conversions, called on an Affine.  They keep no state between calls: *)
(* a behaviour is one call on one transform.                                *)

\* The call returns or raises: r is its outcome
Return(r) ==
    /\ result' = r.res
    /\ opLog' = r.log
    /\ ctx' = r.ctx

Init ==
    /\ transform \in Transforms
    /\ ConvStart
    /\ LifeStart
    /\ ThreadStart

\* xy(transform, rows, cols, zs=zs, offset=offset); one of the two optional
\* arguments is given at a time
CallXY ==
    /\ call = NoCall
    /\ \E rows \in Inputs, cols \in Inputs, zs \in ZInputs, offset \in Offsets :
        /\ zs = None \/ offset = "center"
        /\ Return(xy(AffineValue(transform), rows, cols, zs, offset, NoOptions, "ok", ctx))
        /\ call' = Call("xy", rows, cols, zs, offset, "ok")
        /\ UNCHANGED <<transform, asked, factory, built, inst, env, threadVars>>

\* rowcol(transform, xs, ys, zs=zs, op=op)
CallRowcol ==
    /\ call = NoCall
    /\ \E xs \in Inputs, ys \in Inputs, zs \in ZInputs, op \in Ops :
        /\ zs = None \/ op = "floor"
        /\ Return(rowcol(AffineValue(transform), xs, ys, zs, op, NoOptions, "ok", ctx))
        /\ call' = Call("rowcol", xs, ys, zs, op, "ok")
        /\ UNCHANGED <<transform, asked, factory, built, inst, env, threadVars>>

\* rowcol(transform, *xy(transform, rows, cols, offset='ul'))
CallRoundTrip ==
    /\ call = NoCall
    /\ \E rows \in Inputs, cols \in Inputs :
        /\ Return(RoundTrip(AffineValue(transform), rows, cols, ctx))
        /\ call' = Call("roundtrip", rows, cols, None, "ul", "ok")
        /\ UNCHANGED <<transform, asked, factory, built, inst, env, threadVars>>

Next == CallXY \/ CallRowcol \/ CallRoundTrip

Spec == Init /\ [][Next]_vars

----------------------------------------------------------------------------
(* The life of one transformer: the factory, the constructors, the scope,  *)
(* close and the methods, in any order the caller chooses.                 *)

Values ==
    {NoneValue, AffineValue(EngineModel), RPCValue, DictValue, IntValue,
     ListValue(<<>>), ListValue(<<"GroundControlPoint">>),
     ListValue(<<"GroundControlPoint", "GroundControlPoint">>), ListValue(<<"str">>)}

Options == {NoOptions, "{'RPC_HEIGHT': 100}"}

Classes == {"AffineTransformer", "RPCTransformer", "GCPTransformer"}

\* The coordinate arguments of the method calls: two scalars, two lists of
\* one length, two lists of different lengths
MethodArgs ==
    {<<Scalar(FromInt(1)), Scalar(FromInt(2))>>,
     <<List(Run(0, MaxLen)), List(Run(1, MaxLen))>>,
     <<List(Run(0, MaxLen)), List(Run(0, MaxLen + 1))>>}

EngineAnswers == {"ok", "TypeError"}

InitLife ==
    /\ transform = IDENTITY
    /\ ConvStart
    /\ LifeStart
    /\ ThreadStart

Idle == UNCHANGED <<transform, opLog, threadVars>>

\* transformer_cls = get_transformer(transform, **rpc_options)
GetTransformer ==
    /\ asked = NotAsked
    /\ \E t \in Values, rpc_options \in Options :
        /\ asked' = [fn |-> "get_transformer", t |-> t, opts |-> rpc_options]
        /\ factory' = get_transformer(t, rpc_options)
        /\ call' = Call("get_transformer", None, None, None, "none", "ok")
        /\ result' = IF get_transformer(t, rpc_options).err # "none"
                     THEN Error(get_transformer(t, rpc_options).err)
                     ELSE Returned
    /\ UNCHANGED <<built, inst, env, ctx>>
    /\ Idle

\* transformer = transformer_cls()
CallFactory ==
    /\ asked.fn = "get_transformer"
    /\ factory.err = "none"
    /\ built = NotBuilt /\ inst = NoTransformer
    /\ call.fn = "get_transformer"
    /\ built' = Construct(factory)
    /\ inst' = Construct(factory).tr
    /\ call' = Call("transformer_cls", None, None, None, "none", "ok")
    /\ result' = IF Construct(factory).err # "none"
                 THEN Error(Construct(factory).err)
                 ELSE Returned
    /\ UNCHANGED <<asked, factory, env, ctx>>
    /\ Idle

\* transformer = AffineTransformer(t), RPCTransformer(t, **rpc_options) or
\* GCPTransformer(t), called directly
CallConstructor ==
    /\ asked = NotAsked
    /\ \E cls \in Classes, t \in Values, rpc_options \in Options :
        LET partial == [err |-> "none", cls |-> cls, arg |-> t, opts |-> rpc_options]
        IN /\ cls = "RPCTransformer" \/ rpc_options = NoOptions
           /\ asked' = [fn |-> cls, t |-> t, opts |-> rpc_options]
           /\ built' = Construct(partial)
           /\ inst' = Construct(partial).tr
           /\ call' = Call(cls, None, None, None, "none", "ok")
           /\ result' = IF Construct(partial).err # "none"
                        THEN Error(Construct(partial).err)
                        ELSE Returned
    /\ UNCHANGED <<factory, env, ctx>>
    /\ Idle

\* transformer.__enter__()
Enter ==
    /\ inst.cls # "none"
    /\ CanEnter(inst, ctx)
    /\ LET st == enter([inst |-> inst, env |-> env, ctx |-> ctx])
       IN /\ inst' = st.inst
          /\ env' = st.env
          /\ ctx' = st.ctx
    /\ call' = Call("__enter__", None, None, None, "none", "ok")
    /\ result' = Returned
    /\ UNCHANGED <<asked, factory, built>>
    /\ Idle

\* transformer.__exit__(*args), the body of the scope having returned
\* (how = "returned") or raised (how = "raised"): the arguments are ignored
\* and a raised exception is not suppressed
Exit ==
    /\ inst.cls # "none"
    /\ \E how \in {"returned", "raised"} :
        /\ LET st == exit([inst |-> inst, env |-> env, ctx |-> ctx])
           IN /\ inst' = st.inst
              /\ env' = st.env
              /\ ctx' = st.ctx
        /\ call' = Call("__exit__", None, None, None, how, "ok")
        /\ result' = Returned
    /\ UNCHANGED <<asked, factory, built>>
    /\ Idle

\* transformer.close()
Close ==
    /\ inst.cls \in {"GCP", "RPC"}
    /\ inst' = close(inst)
    /\ call' = Call("close", None, None, None, IF inst.closed THEN "again" ELSE "first", "ok")
    /\ result' = Returned
    /\ UNCHANGED <<asked, factory, built, env, ctx>>
    /\ Idle

\* transformer.xy(rows, cols, offset=offset)
MethodXY ==
    /\ inst.cls # "none"
    /\ \E args \in MethodArgs, offset \in {"center", "bogus"}, eng \in EngineAnswers :
        /\ (inst.cls = "Affine" \/ inst.closed) => eng = "ok"
        /\ call' = Call("transformer.xy", args[1], args[2], None, offset, eng)
        /\ result' = TransformerBase_xy(inst, args[1], args[2], None, offset, eng)
    /\ UNCHANGED lifeVars
    /\ Idle

\* transformer.rowcol(xs, ys)
MethodRowcol ==
    /\ inst.cls # "none"
    /\ \E args \in MethodArgs, eng \in EngineAnswers :
        /\ (inst.cls = "Affine" \/ inst.closed) => eng = "ok"
        /\ call' = Call("transformer.rowcol", args[1], args[2], None, "floor", eng)
        /\ result' = TransformerBase_rowcol(inst, args[1], args[2], None, "floor", eng).res
    /\ UNCHANGED lifeVars
    /\ Idle

\* The module-level xy(t, rows, cols) and rowcol(t, xs, ys) on ground control
\* points: a transformer of their own, built, entered, used and left within
\* the call.  The engine's answer is drawn only where the engine is reached.
ModuleCall ==
    /\ HasFresh(ctx)
    /\ \E t \in {ListValue(<<"GroundControlPoint">>), ListValue(<<>>)},
          fn \in {"xy", "rowcol"}, args \in MethodArgs, eng \in EngineAnswers :
        /\ (Len(t.items) = 0 \/ args[1].shape # args[2].shape) => eng = "ok"
        /\ call' = Call(fn, args[1], args[2], None, t.type, eng)
        /\ Return(IF fn = "xy"
                  THEN xy(t, args[1], args[2], None, "center", NoOptions, eng, ctx)
                  ELSE rowcol(t, args[1], args[2], None, "floor", NoOptions, eng, ctx))
    /\ UNCHANGED <<asked, factory, built, inst, env, transform, threadVars>>

NextLife ==
    \/ GetTransformer
    \/ CallFactory
    \/ CallConstructor
    \/ Enter
    \/ Exit
    \/ Close
    \/ MethodXY
    \/ MethodRowcol
    \/ ModuleCall

SpecLife == InitLife /\ [][NextLife]_vars

----------------------------------------------------------------------------
(* Two threads in AffineTransformer._transform on one instance, with no     *)
(* lock.  input_matrix and the selected transform are locals of a call;     *)
(* self._transform_arr is the instance's and is written by every call       *)
(* before np.matmul reads it.  np.empty leaves it uninitialised at          *)
(* construction: no call reads it before its own write, so the value it     *)
(* starts with is never seen.  A thread may be preempted between any two    *)
(* steps, and np.matmul runs without the interpreter lock, so its rows are  *)
(* read in separate steps.                                                  *)

Directions == {"forward", "reverse"}

ThreadPoints == {<<FromInt(1), FromInt(2)>>, <<FromInt(0), FromInt(1)>>}

\* _transform(xs, ys, zs, direction) is entered: input_matrix is filled and
\* the transform selected; ~self._transformer raises on a degenerate transform
ThreadCall(t) ==
    /\ pc[t] = "idle"
    /\ \E direction \in Directions, p \in ThreadPoints :
        /\ job' = [job EXCEPT ![t] = [direction |-> direction, x |-> p[1], y |-> p[2]]]
        /\ pc' = [pc EXCEPT ![t] = IF SelectMatrix(transform, direction).err # "none"
                                   THEN "raised" ELSE "write"]
    /\ UNCHANGED <<transform, transform_arr, out, call, result, opLog, lifeVars>>

\* arr = self._transform_arr; arr.flat[:] = transform
ThreadWrite(t) ==
    /\ pc[t] = "write"
    /\ transform_arr' = SelectMatrix(transform, job[t].direction).M
    /\ pc' = [pc EXCEPT ![t] = "row0"]
    /\ UNCHANGED <<transform, job, out, call, result, opLog, lifeVars>>

\* np.matmul(arr, input_matrix, out=input_matrix): row 0 of the product
ThreadMatMulRow0(t) ==
    /\ pc[t] = "row0"
    /\ out' = [out EXCEPT ![t][1] =
                  MatMulRow(transform_arr, 0, <<job[t].x>>, <<job[t].y>>)[1]]
    /\ pc' = [pc EXCEPT ![t] = "row1"]
    /\ UNCHANGED <<transform, transform_arr, job, call, result, opLog, lifeVars>>

\* np.matmul(arr, input_matrix, out=input_matrix): row 1 of the product, and
\* return output_matrix[0], output_matrix[1]
ThreadMatMulRow1(t) ==
    /\ pc[t] = "row1"
    /\ out' = [out EXCEPT ![t][2] =
                  MatMulRow(transform_arr, 1, <<job[t].x>>, <<job[t].y>>)[1]]
    /\ pc' = [pc EXCEPT ![t] = "done"]
    /\ UNCHANGED <<transform, transform_arr, job, call, result, opLog, lifeVars>>

NextThreads ==
    \E t \in Threads :
        \/ ThreadCall(t)
        \/ ThreadWrite(t)
        \/ ThreadMatMulRow0(t)
        \/ ThreadMatMulRow1(t)

SpecThreads == Init /\ [][NextThreads]_vars

----------------------------------------------------------------------------
(* Vocabulary of the properties of the conversions *)

Args(c) == {c.x, c.y, c.zs}

\* The lengths of the arguments given as flat sequences
SeqLens(c) == {Len(i.v) : i \in {j \in Args(c) : j.k = "list" /\ Len(j.shape) = 1}}

\* The number of points of a call whose arguments broadcast
NPoints(c) ==
    LET lens == {Len(i.v) : i \in {j \in Args(c) : j.k # "none"}}
    IN IF 0 \in lens THEN 0 ELSE CHOOSE n \in lens : \A m \in lens : m <= n

\* The i-th point's coordinate drawn from an argument
Elem(x, i) == x.v[IF Len(x.v) = 1 THEN 1 ELSE i]

Succeeded == result.kind \in {"pair", "lists"}

\* Both arguments are scalars, or both are flat sequences of one length
SameShape(c) ==
    \/ c.x.k = "scalar" /\ c.y.k = "scalar"
    \/ /\ c.x.k = "list" /\ c.y.k = "list"
       /\ Len(c.x.shape) = 1 /\ c.x.shape = c.y.shape

\* C1: xy and rowcol raise TransformError whenever the arguments given as
\* sequences do not all have the same length, a sequence of length 1 paired
\* with a longer one included.
C1_MismatchedLengthsRaise ==
    (call.fn \in {"xy", "rowcol"} /\ Cardinality(SeqLens(call)) > 1)
        => (result.kind = "error" /\ result.err = "TransformError")

\* C2 as claimed: for every invertible T and integer rows and cols (scalars or
\* sequences of one length), the round trip through xy at the upper left corner
\* and rowcol with floor returns exactly the rows and the cols.
C2_RoundTripExact ==
    (call.fn = "roundtrip" /\ ~IsDegenerate(transform) /\ SameShape(call))
        => /\ Succeeded
           /\ result.kind = (IF call.x.k = "scalar" THEN "pair" ELSE "lists")
           /\ result.a = call.x.v
           /\ result.b = call.y.v

\* The determinant of T is plus or minus a power of two: with integer
\* coefficients the inverse is then computed without rounding.
DyadicDeterminant(T) == Abs(Determinant(T)[1]) = 1

\* C2 as amended: the round trip is exact for the transforms with integer
\* coefficients whose determinant is plus or minus a power of two.
C2_RoundTripExactDyadic ==
    DyadicDeterminant(transform) => C2_RoundTripExact

C2_Witness ==
    /\ call.fn = "roundtrip"
    /\ Determinant(transform) = FromInt(-2)
    /\ transform[2] # FZero
    /\ call.x = List(<<FromInt(1), FromInt(2)>>)
    /\ call.y = List(<<FromInt(2), FromInt(3)>>)
    /\ result.kind = "lists"
    /\ result.a = <<FromInt(1), FromInt(2)>>
    /\ result.b = <<FromInt(2), FromInt(3)>>

\* C3: xy returns a pair of scalars exactly when rows and cols are both
\* scalars and one point results, and two sequences of N values otherwise.
C3_ScalarPairIffScalarInputs ==
    (call.fn = "xy" /\ Succeeded)
        => /\ result.kind = "pair"
                <=> (~HasIter(call.x) /\ ~HasIter(call.y) /\ NPoints(call) = 1)
           /\ result.kind = "lists"
                => (Len(result.a) = NPoints(call) /\ Len(result.b) = NPoints(call))

\* C6: on a singular Affine, xy succeeds and rowcol raises TransformError.
C6_SingularReverseRaisesTransformError ==
    IsDegenerate(transform)
        => /\ (call.fn = "xy" /\ SameShape(call) /\ call.opt # "bogus"
                  /\ call.zs.k # "list") => Succeeded
           /\ call.fn = "rowcol" => (result.kind = "error" /\ result.err = "TransformError")

\* The positions the reverse transform gives for the points of a rowcol call
Positions(c) ==
    AffineTransformer_transform(transform,
        [i \in 1..NPoints(c) |-> Elem(c.x, i)],
        [i \in 1..NPoints(c) |-> Elem(c.y, i)], "reverse")

\* C10: rowcol returns the rows first and the cols second, each the value of op
\* at the reverse-transformed position, op having been applied exactly once to
\* each position: a pair of scalars when no argument is iterable, two sequences
\* of N values in input order otherwise.
C10_RowcolAppliesOpOnce ==
    (call.fn = "rowcol" /\ Succeeded)
        => LET n   == NPoints(call)
               pos == Positions(call)
               op  == call.opt
           IN /\ result.kind = "pair"
                    <=> ~(HasIter(call.x) \/ HasIter(call.y) \/ HasIter(call.zs))
              /\ result.kind = "pair" => n = 1
              /\ Len(result.a) = n /\ Len(result.b) = n
              /\ \A i \in 1..n :
                    /\ result.a[i] = ApplyOp(op, pos.b[i])
                    /\ result.b[i] = ApplyOp(op, pos.a[i])
              /\ Len(opLog) = 2 * n
              /\ {opLog[j] : j \in 1..Len(opLog)}
                    = {<<"row", i, pos.b[i]>> : i \in 1..n}
                        \cup {<<"col", i, pos.a[i]>> : i \in 1..n}

C10_Witness ==
    /\ call.fn = "rowcol"
    /\ call.opt = "ceil"
    /\ call.x = List(<<FromInt(1), FromInt(2)>>)
    /\ call.y = Scalar(FromInt(0))
    /\ result.kind = "lists"
    /\ result.a # result.b
    /\ Len(opLog) = 4
    /\ \E j \in 1..4 : opLog[j][3][2] < 0

----------------------------------------------------------------------------
(* Vocabulary of the properties of a transformer's life *)

GDALInstance == inst.cls \in {"GCP", "RPC"}

OnStack(c) == \E i \in 1..Len(env) : env[i] = c

MethodCall == call.fn \in {"transformer.xy", "transformer.rowcol"}

\* The arguments of a method call are well formed: scalars or flat sequences
\* that broadcast to one length, and an offset that is one of the five names
ValidCall(c) ==
    /\ \A i \in Args(c) : Len(i.shape) <= 1
    /\ \A i, j \in Args(c) :
         (i.k # "none" /\ j.k # "none")
            => (Len(i.v) = Len(j.v) \/ Len(i.v) = 1 \/ Len(j.v) = 1)
    /\ c.fn = "transformer.xy" => c.opt \in {"center", "ul", "ur", "ll", "lr"}

\* C4: every __exit__ of a GCP/RPC transformer, after a body that returned or
\* raised, calls close() and releases every context __enter__ acquired; no
\* context is released twice, and a context is held only while it is on the
\* stack of the instance (after an exit none is held).
C4_ExitReleasesEachOnce ==
    /\ \A c \in DOMAIN ctx :
         /\ ctx[c].releases <= 1
         /\ ctx[c].state = "released" <=> ctx[c].releases = 1
         /\ ctx[c].state = "held" <=> OnStack(c)
    /\ (call.fn = "__exit__" /\ GDALInstance)
         => /\ inst.closed
            /\ env = <<>>
            /\ \A c \in DOMAIN ctx : ctx[c].state # "held"

C4_Witness ==
    /\ call.fn = "__exit__"
    /\ call.opt = "raised"
    /\ inst.cls = "RPC"
    /\ inst.closed
    /\ env = <<>>
    /\ \A c \in DOMAIN ctx : ctx[c].state = "released" /\ ctx[c].releases = 1

\* C5 as claimed: every call of xy or rowcol on a closed GCP/RPC transformer
\* raises ClosedTransformerError, and close() never raises.
C5_ClosedCallsRaiseClosedTransformerError ==
    /\ (MethodCall /\ GDALInstance /\ inst.closed)
         => (result.kind = "error" /\ result.err = "ClosedTransformerError")
    /\ call.fn = "close" => result = Returned

\* C5 as amended: a call of xy or rowcol on a closed GCP/RPC transformer
\* raises ClosedTransformerError when its arguments are well formed and
\* TransformError when they are not; it never returns a result and the
\* instance stays closed; close() never raises, the second time included.
C5_ClosedCallsFail ==
    /\ (MethodCall /\ GDALInstance /\ inst.closed)
         => /\ result.kind = "error"
            /\ result.err = (IF ValidCall(call) THEN "ClosedTransformerError"
                              ELSE "TransformError")
    /\ call.fn = "close" => (result = Returned /\ inst.closed)

C5_Witness ==
    /\ call.fn = "transformer.rowcol"
    /\ inst.cls = "GCP"
    /\ inst.closed
    /\ env = <<>>
    /\ ctx[1].state = "released"
    /\ ValidCall(call)
    /\ result.err = "ClosedTransformerError"

\* The argument of a constructor call is an empty GCP sequence, or is neither
\* a sequence of GroundControlPoint nor an RPC model
BadArgument(a) ==
    \/ a.fn = "GCPTransformer" /\ a.t.type = "list" /\ Len(a.t.items) = 0
    \/ /\ a.t.type \notin {"RPC", "dict"}
       /\ ~(/\ a.t.type = "list"
             /\ \A i \in 1..Len(a.t.items) : a.t.items[i] = "GroundControlPoint")

\* C7: GCPTransformer of an empty sequence, and GCPTransformer or
\* RPCTransformer of an object that is neither a sequence of
\* GroundControlPoint nor an RPC model, raise ValueError from the
\* constructor's own check, the base class __init__ not having been reached.
C7_BadArgumentsRejectedByConstructor ==
    (asked.fn \in {"GCPTransformer", "RPCTransformer"} /\ BadArgument(asked))
        => /\ built.err = "ValueError"
           /\ built.by = asked.fn \o ".__init__"
           /\ ~built.base

\* What one call of _transform gives when no other call is running
Sequential(t) ==
    AffineTransformer_transform(transform, <<job[t].x>>, <<job[t].y>>, job[t].direction)

\* C8: a thread whose _transform ran concurrently with another thread's on the
\* same AffineTransformer returns what the call returns run alone.
C8_ThreadsComputeAsSequential ==
    \A t \in Threads :
        pc[t] = "done" => out[t] = <<Sequential(t).a[1], Sequential(t).b[1]>>

\* The transformer class get_transformer selects for a value
ClassFor(t) ==
    CASE t.type = "Affine" -> "AffineTransformer"
      [] t.type = "RPC"    -> "RPCTransformer"
      [] OTHER             -> "GCPTransformer"

\* C9: get_transformer(None) raises ValueError and selects no class; for any
\* other value it returns the partial of AffineTransformer for an Affine, of
\* RPCTransformer with the options for an RPC, of GCPTransformer otherwise,
\* having constructed no transformer and acquired no context; the partial,
\* called, builds an instance of that class.
C9_FactoryDefersConstruction ==
    asked.fn = "get_transformer"
        => /\ asked.t.type = "NoneType"
                => (factory.err = "ValueError" /\ factory.cls = "none" /\ built = NotBuilt)
           /\ asked.t.type # "NoneType"
                => /\ factory.err = "none"
                   /\ factory.cls = ClassFor(asked.t)
                   /\ factory.arg = asked.t
                   /\ factory.opts = (IF asked.t.type = "RPC" THEN asked.opts
                                       ELSE NoOptions)
           /\ call.fn = "get_transformer"
                => /\ result = (IF asked.t.type = "NoneType" THEN Error("ValueError")
                                 ELSE Returned)
                   /\ built = NotBuilt /\ inst = NoTransformer /\ env = <<>>
                   /\ \A c \in DOMAIN ctx : ctx[c].state # "held"
           /\ (built # NotBuilt /\ built.err = "none")
                => /\ "" \o inst.cls \o "Transformer" = factory.cls
                   /\ inst.opts = factory.opts

C9_Witness ==
    /\ asked.fn = "get_transformer"
    /\ asked.t = RPCValue
    /\ asked.opts # NoOptions
    /\ factory.cls = "RPCTransformer"
    /\ factory.opts = asked.opts
    /\ call.fn = "transformer_cls"
    /\ inst.cls = "RPC"
    /\ inst.opts = asked.opts

----------------------------------------------------------------------------
(* Vocabulary of the offset formula of xy *)

\* The offset names and the fractions <<coff, roff>> the claim gives them
Fractions ==
    [center |-> <<FHalf, FHalf>>, ul |-> <<FZero, FZero>>, ur |-> <<FOne, FZero>>,
     ll |-> <<FZero, FOne>>, lr |-> <<FOne, FOne>>]

\* p * (col + coff) + q * (row + roff) + r, evaluated left to right in floats
Shifted(p, q, r, row, col, fr) ==
    FAdd(FAdd(FMul(p, FAdd(col, fr[1])), FMul(q, FAdd(row, fr[2]))), r)

\* The arguments of call c broadcast to one dimension
Broadcastable(c) ==
    /\ \A i \in Args(c) : Len(i.shape) <= 1
    /\ \A i, j \in Args(c) :
         (i.k # "none" /\ j.k # "none")
            => (Len(i.v) = Len(j.v) \/ Len(i.v) = 1 \/ Len(j.v) = 1)

\* C11: for T = (a, b, c, d, e, f), xy(T, row, col, offset) is
\* (a*(col+coff) + b*(row+roff) + c, d*(col+coff) + e*(row+roff) + f) at every
\* point, (coff, roff) being (0.5, 0.5) for 'center', (0, 0) for 'ul', (1, 0)
\* for 'ur', (0, 1) for 'll' and (1, 1) for 'lr'; any other offset raises
\* TransformError.
C11_XyOffsetFormula ==
    call.fn = "xy"
        => /\ call.opt \notin DOMAIN Fractions
                => (result.kind = "error" /\ result.err = "TransformError")
           /\ (call.opt \in DOMAIN Fractions /\ Broadcastable(call))
                => /\ Succeeded
                   /\ Len(result.a) = NPoints(call) /\ Len(result.b) = NPoints(call)
                   /\ \A i \in 1..NPoints(call) :
                        /\ result.a[i] = Shifted(transform[1], transform[2], transform[3],
                                                  Elem(call.x, i), Elem(call.y, i),
                                                  Fractions[call.opt])
                        /\ result.b[i] = Shifted(transform[4], transform[5], transform[6],
                                                  Elem(call.x, i), Elem(call.y, i),
                                                  Fractions[call.opt])

C11_Witness ==
    /\ call.fn = "xy"
    /\ call.opt = "ur"
    /\ transform[1] # transform[2] /\ transform[2] # FZero /\ transform[4] # FZero
    /\ call.x = List(<<FromInt(1), FromInt(2)>>)
    /\ call.y = List(<<FromInt(0), FromInt(1)>>)
    /\ result.kind = "lists"
    /\ Len(result.a) = 2
    /\ result.a[1] # result.a[2]

====
